---------------------------- MODULE Spec2Model ----------------------------
(***************************************************************************)
(* Model of the request orchestrator of gelo6320/jetool:                   *)
(*   src/python/agent.py   JewishIdentityAnalyzerAgent                      *)
(*   src/api/analyze.py    handler.do_POST                                  *)
(*                                                                         *)
(* A Python str is a sequence of one-character strings.  A Python value is *)
(* a record [t, v]: t is the type tag, v the payload (always a sequence).  *)
(* A dict is the sequence of its <<key, value>> pairs in insertion order.  *)
(***************************************************************************)
EXTENDS Integers, Sequences, FiniteSets, TLC

\* ------------------------------------------------------------------------
\* Python values
\* ------------------------------------------------------------------------
PyNone == [t |-> "none", v |-> <<>>]
PyStr(s) == [t |-> "str", v |-> s]
PyInt(n) == [t |-> "int", v |-> <<n>>]
PyFloat(lit) == [t |-> "float", v |-> lit]
PyBool(b) == [t |-> "bool", v |-> <<b>>]
PyList(xs) == [t |-> "list", v |-> xs]
PyDict(ms) == [t |-> "dict", v |-> ms]

\* bool(x) of the values the handlers test: None, "" are falsy
Truthy(x) ==
    CASE x.t = "none" -> FALSE
      [] x.t = "str" -> Len(x.v) > 0
      [] x.t = "int" -> x.v[1] # 0
      [] x.t = "bool" -> x.v[1]
      [] OTHER -> Len(x.v) > 0

\* d[k] = val on a dict: a repeated key keeps its place and takes the new value
DictSet(ms, k, val) ==
    IF \E i \in 1..Len(ms) : ms[i][1] = k
    THEN [i \in 1..Len(ms) |-> IF ms[i][1] = k THEN <<k, val>> ELSE ms[i]]
    ELSE Append(ms, <<k, val>>)

\* k in d
DictHas(d, k) == \E i \in 1..Len(d.v) : d.v[i][1] = k

\* d[k], for a key that DictHas
DictGet(d, k) == d.v[CHOOSE i \in 1..Len(d.v) : d.v[i][1] = k][2]

\* s[:n]
Prefix(s, n) == SubSeq(s, 1, IF Len(s) < n THEN Len(s) ELSE n)

\* "sep".join(xs) for a list of str
RECURSIVE Join(_, _)
Join(sep, xs) ==
    IF Len(xs) = 0 THEN <<>>
    ELSE IF Len(xs) = 1 THEN xs[1]
    ELSE xs[1] \o sep \o Join(sep, Tail(xs))

\* ------------------------------------------------------------------------
\* re.search of the patterns the agent uses
\* ------------------------------------------------------------------------
DigitChars == <<"0", "1", "2", "3", "4", "5", "6", "7", "8", "9">>
IsDigit(c) == \E d \in 1..10 : DigitChars[d] = c
DigitVal(c) == (CHOOSE d \in 1..10 : DigitChars[d] = c) - 1

\* index of the last character of the maximal digit run that starts at i
RECURSIVE DigitRunEnd(_, _)
DigitRunEnd(s, i) ==
    IF i < Len(s) /\ IsDigit(s[i + 1]) THEN DigitRunEnd(s, i + 1) ELSE i

\* int() of the digit string s[i..j]
RECURSIVE IntOf(_, _, _)
IntOf(s, i, j) ==
    IF j < i THEN 0 ELSE IntOf(s, i, j - 1) * 10 + DigitVal(s[j])

NoMatch == [found |-> FALSE, from |-> 0, to |-> 0]
Match(i, j) == [found |-> TRUE, from |-> i, to |-> j]

\* re.search(r'\{.*\}', s, re.DOTALL): leftmost '{', greedy to the last '}'
ReSearchBraces(s) ==
    LET opens == {i \in 1..Len(s) : s[i] = "{"}
        closes == {i \in 1..Len(s) : s[i] = "}"}
    IN  IF opens = {} \/ closes = {} THEN NoMatch
        ELSE LET i == CHOOSE a \in opens : \A b \in opens : a <= b
                 j == CHOOSE a \in closes : \A b \in closes : a >= b
             IN  IF i < j THEN Match(i, j) ELSE NoMatch

\* re.search(r'(\d+)', s): group 1 is the first maximal digit run
ReSearchInt(s) ==
    LET starts == {i \in 1..Len(s) : IsDigit(s[i])}
    IN  IF starts = {} THEN NoMatch
        ELSE LET i == CHOOSE a \in starts : \A b \in starts : a <= b
             IN  Match(i, DigitRunEnd(s, i))

\* re.search(r'(\d+)%', s): group 1 is the first digit run followed by '%'
ReSearchPercent(s) ==
    LET starts == {i \in 1..Len(s) :
                     /\ IsDigit(s[i])
                     /\ DigitRunEnd(s, i) < Len(s)
                     /\ s[DigitRunEnd(s, i) + 1] = "%"}
    IN  IF starts = {} THEN NoMatch
        ELSE LET i == CHOOSE a \in starts : \A b \in starts : a <= b
             IN  Match(i, DigitRunEnd(s, i))

UpperLetters == <<"A","B","C","D","E","F","G","H","I","J","K","L","M","N","O","P","Q","R","S","T","U","V","W","X","Y","Z">>
LowerLetters == <<"a","b","c","d","e","f","g","h","i","j","k","l","m","n","o","p","q","r","s","t","u","v","w","x","y","z">>

\* the case folding of re.IGNORECASE, on ASCII
Lower(c) ==
    IF \E k \in 1..26 : UpperLetters[k] = c
    THEN LowerLetters[CHOOSE k \in 1..26 : UpperLetters[k] = c]
    ELSE c

ProbabilityWord == <<"p","r","o","b","a","b","i","l","i","t","y">>

\* s[i..] starts with w, ignoring case
StartsWithIC(s, i, w) ==
    /\ i + Len(w) - 1 <= Len(s)
    /\ \A k \in 1..Len(w) : Lower(s[i + k - 1]) = w[k]

\* re.search(r'probability[^\d]*(\d+)', s, re.IGNORECASE): group 1 is the
\* first digit run after the leftmost "probability" that has a digit after it
ReSearchProbability(s) ==
    LET hits == {i \in 1..Len(s) :
                   /\ StartsWithIC(s, i, ProbabilityWord)
                   /\ \E k \in (i + Len(ProbabilityWord))..Len(s) : IsDigit(s[k])}
    IN  IF hits = {} THEN NoMatch
        ELSE LET i == CHOOSE a \in hits : \A b \in hits : a <= b
                 ds == {k \in (i + Len(ProbabilityWord))..Len(s) : IsDigit(s[k])}
                 d == CHOOSE a \in ds : \A b \in ds : a <= b
             IN  Match(d, DigitRunEnd(s, d))

\* int(m.group(1))
GroupInt(s, m) == IntOf(s, m.from, m.to)

\* ------------------------------------------------------------------------
\* json.loads, on printable ASCII without the backslash, and \n \t \r
\* ------------------------------------------------------------------------
IsWs(c) == c \in {" ", "\t", "\n", "\r"}

RECURSIVE SkipWs(_, _)
SkipWs(s, i) == IF i <= Len(s) /\ IsWs(s[i]) THEN SkipWs(s, i + 1) ELSE i

At(s, i) == IF i >= 1 /\ i <= Len(s) THEN s[i] ELSE "EOF"

ParseFail == [ok |-> FALSE, val |-> PyNone, next |-> 0]
ParseOk(val, next) == [ok |-> TRUE, val |-> val, next |-> next]

\* index of the closing quote of the string opened at i, 0 when the string
\* is unterminated or holds a control character (strict mode)
RECURSIVE StringEnd(_, _)
StringEnd(s, j) ==
    IF j > Len(s) THEN 0
    ELSE IF s[j] = "\"" THEN j
    ELSE IF s[j] \in {"\n", "\t", "\r"} THEN 0
    ELSE StringEnd(s, j + 1)

ParseString(s, i) ==
    LET j == StringEnd(s, i + 1)
    IN  IF j = 0 THEN ParseFail ELSE ParseOk(PyStr(SubSeq(s, i + 1, j - 1)), j + 1)

\* NUMBER_RE = (-?(?:0|[1-9]\d*))(\.\d+)?([eE][-+]?\d+)?
ParseNumber(s, i) ==
    LET k == IF s[i] = "-" THEN i + 1 ELSE i
    IN  IF ~IsDigit(At(s, k)) THEN ParseFail
        ELSE LET intEnd == IF s[k] = "0" THEN k ELSE DigitRunEnd(s, k)
                 fracEnd == IF At(s, intEnd + 1) = "." /\ IsDigit(At(s, intEnd + 2))
                            THEN DigitRunEnd(s, intEnd + 2) ELSE intEnd
                 signed == IF At(s, fracEnd + 2) \in {"-", "+"} THEN fracEnd + 3
                           ELSE fracEnd + 2
                 expEnd == IF At(s, fracEnd + 1) \in {"e", "E"} /\ IsDigit(At(s, signed))
                           THEN DigitRunEnd(s, signed) ELSE fracEnd
                 n == IntOf(s, k, intEnd)
             IN  IF expEnd = intEnd
                 THEN ParseOk(PyInt(IF s[i] = "-" THEN 0 - n ELSE n), intEnd + 1)
                 ELSE ParseOk(PyFloat(SubSeq(s, i, expEnd)), expEnd + 1)

StartsWith(s, i, w) ==
    /\ i + Len(w) - 1 <= Len(s)
    /\ \A k \in 1..Len(w) : s[i + k - 1] = w[k]

RECURSIVE ParseValue(_, _)
RECURSIVE ParseMembers(_, _, _)
RECURSIVE ParseElements(_, _, _)

\* JSONObject: s[i] = '{'
ParseObject(s, i) ==
    LET j == SkipWs(s, i + 1)
    IN  IF At(s, j) = "}" THEN ParseOk(PyDict(<<>>), j + 1)
        ELSE IF At(s, j) = "\"" THEN ParseMembers(s, j, <<>>)
        ELSE ParseFail

\* one "key": value pair at j (s[j] = '"'), then ',' and the next, or '}'
ParseMembers(s, j, acc) ==
    LET key == ParseString(s, j)
    IN  IF ~key.ok THEN ParseFail
        ELSE LET c == SkipWs(s, key.next)
             IN  IF At(s, c) # ":" THEN ParseFail
                 ELSE LET val == ParseValue(s, SkipWs(s, c + 1))
                      IN  IF ~val.ok THEN ParseFail
                          ELSE LET e == SkipWs(s, val.next)
                                   acc2 == DictSet(acc, key.val.v, val.val)
                               IN  IF At(s, e) = "}" THEN ParseOk(PyDict(acc2), e + 1)
                                   ELSE IF At(s, e) # "," THEN ParseFail
                                   ELSE LET n == SkipWs(s, e + 1)
                                        IN  IF At(s, n) = "\""
                                            THEN ParseMembers(s, n, acc2)
                                            ELSE ParseFail

\* JSONArray: s[i] = '['
ParseArray(s, i) ==
    LET j == SkipWs(s, i + 1)
    IN  IF At(s, j) = "]" THEN ParseOk(PyList(<<>>), j + 1)
        ELSE ParseElements(s, j, <<>>)

ParseElements(s, j, acc) ==
    LET val == ParseValue(s, j)
    IN  IF ~val.ok THEN ParseFail
        ELSE LET e == SkipWs(s, val.next)
                 acc2 == Append(acc, val.val)
             IN  IF At(s, e) = "]" THEN ParseOk(PyList(acc2), e + 1)
                 ELSE IF At(s, e) # "," THEN ParseFail
                 ELSE ParseElements(s, SkipWs(s, e + 1), acc2)

\* scan_once
ParseValue(s, i) ==
    LET c == At(s, i)
    IN  IF c = "\"" THEN ParseString(s, i)
        ELSE IF c = "{" THEN ParseObject(s, i)
        ELSE IF c = "[" THEN ParseArray(s, i)
        ELSE IF c = "n" /\ StartsWith(s, i, <<"n","u","l","l">>) THEN ParseOk(PyNone, i + 4)
        ELSE IF c = "t" /\ StartsWith(s, i, <<"t","r","u","e">>) THEN ParseOk(PyBool(TRUE), i + 4)
        ELSE IF c = "f" /\ StartsWith(s, i, <<"f","a","l","s","e">>) THEN ParseOk(PyBool(FALSE), i + 5)
        ELSE IF (c = "-" \/ IsDigit(c)) /\ ParseNumber(s, i).ok THEN ParseNumber(s, i)
        ELSE IF c = "N" /\ StartsWith(s, i, <<"N","a","N">>) THEN ParseOk(PyFloat(<<"N","a","N">>), i + 3)
        ELSE IF c = "I" /\ StartsWith(s, i, <<"I","n","f","i","n","i","t","y">>)
        THEN ParseOk(PyFloat(<<"I","n","f","i","n","i","t","y">>), i + 8)
        ELSE IF c = "-" /\ StartsWith(s, i, <<"-","I","n","f","i","n","i","t","y">>)
        THEN ParseOk(PyFloat(<<"-","I","n","f","i","n","i","t","y">>), i + 9)
        ELSE ParseFail

\* json.loads(s): ok = FALSE stands for json.JSONDecodeError
JsonLoads(s) ==
    LET r == ParseValue(s, SkipWs(s, 1))
    IN  IF r.ok /\ SkipWs(s, r.next) = Len(s) + 1 THEN r ELSE ParseFail

\* ------------------------------------------------------------------------
\* Outcomes of what the agent calls: the call raises, or it returns
\* ------------------------------------------------------------------------
Raise(msg) == [raised |-> TRUE, content |-> PyStr(msg)]
Reply(c) == [raised |-> FALSE, content |-> c]
PyBytes(bs) == [t |-> "bytes", v |-> bs]

\* {"errore": msg}
ErrorDict(msg) == PyDict(<< <<<<"e","r","r","o","r","e">>, PyStr(msg)>> >>)
IsErrorDict(x) == x.t = "dict" /\ DictHas(x, <<"e","r","r","o","r","e">>)

\* str(e) of the TypeError of re.search(pattern, None)
TypeErrorMsg == <<"e","x","p","e","c","t","e","d"," ","s","t","r","i","n","g"," ","o","r"," ","b","y","t","e","s","-","l","i","k","e"," ","o","b","j","e","c","t",","," ","g","o","t"," ","'","N","o","n","e","T","y","p","e","'">>

\* str(e) of the TypeError of "\n\n".join(xs) when xs[i] is None
JoinErrorMsg(i) ==
    <<"s","e","q","u","e","n","c","e"," ","i","t","e","m"," ">> \o <<DigitChars[i]>> \o <<":"," ","e","x","p","e","c","t","e","d"," ","s","t","r"," ","i","n","s","t","a","n","c","e",","," ","N","o","n","e","T","y","p","e"," ","f","o","u","n","d">>

\* ------------------------------------------------------------------------
\* web_search
\* ------------------------------------------------------------------------
search_model == <<"g","p","t","-","4","o","-","m","i","n","i","-","s","e","a","r","c","h","-","p","r","e","v","i","e","w">>
vision_model == <<"g","p","t","-","4","o","-","m","i","n","i">>

\* the request web_search(query) sends
SearchRequest(query) ==
    [model |-> search_model,
     user |-> <<"S","e","a","r","c","h"," ","f","o","r"," ","d","e","t","a","i","l","e","d"," ","i","n","f","o","r","m","a","t","i","o","n"," ","o","n",":"," ">> \o query
              \o <<"."," ","F","o","c","u","s"," ","o","n",":"," ","e","t","h","n","i","c"," ","o","r","i","g","i","n",","," ","f","a","m","i","l","y"," ","b","a","c","k","g","r","o","u","n","d",","," ","r","e","l","i","g","i","o","u","s"," ","a","f","f","i","l","i","a","t","i","o","n",","," ","c","u","l","t","u","r","a","l"," ","h","e","r","i","t","a","g","e",","," ","i","m","m","i","g","r","a","t","i","o","n"," ","h","i","s","t","o","r","y",","," ","a","n","c","e","s","t","r","a","l"," ","r","o","o","t","s",".">>]

\* what web_search returns when the remote call ends with outcome o
web_search(o) ==
    IF o.raised THEN PyStr(<<"E","r","r","o","r"," ","d","u","r","i","n","g"," ","w","e","b"," ","s","e","a","r","c","h",":"," ">> \o o.content.v)
    ELSE o.content

\* ------------------------------------------------------------------------
\* encode_image: base64.b64encode(bytes).decode('utf-8')
\* ------------------------------------------------------------------------
B64Chars == <<"A","B","C","D","E","F","G","H","I","J","K","L","M","N","O","P","Q","R","S","T","U","V","W","X","Y","Z","a","b","c","d","e","f","g","h","i","j","k","l","m","n","o","p","q","r","s","t","u","v","w","x","y","z","0","1","2","3","4","5","6","7","8","9","+","/">>
B64(n) == B64Chars[n + 1]

RECURSIVE b64encode(_)
b64encode(bs) ==
    IF Len(bs) = 0 THEN <<>>
    ELSE IF Len(bs) = 1
    THEN <<B64(bs[1] \div 4), B64((bs[1] % 4) * 16), "=", "=">>
    ELSE IF Len(bs) = 2
    THEN <<B64(bs[1] \div 4), B64((bs[1] % 4) * 16 + bs[2] \div 16),
           B64((bs[2] % 16) * 4), "=">>
    ELSE <<B64(bs[1] \div 4), B64((bs[1] % 4) * 16 + bs[2] \div 16),
           B64((bs[2] % 16) * 4 + bs[3] \div 64), B64(bs[3] % 64)>>
         \o b64encode(SubSeq(bs, 4, Len(bs)))

\* ------------------------------------------------------------------------
\* analyze_ethnic_image
\* ------------------------------------------------------------------------
DefaultScore == 50
ExplanationLimit == 200

K_punteggio_immagine == <<"p","u","n","t","e","g","g","i","o","_","i","m","m","a","g","i","n","e">>
K_indicatori_visivi == <<"i","n","d","i","c","a","t","o","r","i","_","v","i","s","i","v","i">>
K_spiegazione == <<"s","p","i","e","g","a","z","i","o","n","e">>

\* which of the three arguments the if/elif chain takes the image from
ImageSourceBase64First(image_path, image_url, image_base64) ==
    IF Truthy(image_base64) THEN "base64"
    ELSE IF Truthy(image_path) THEN "path"
    ELSE IF Truthy(image_url) THEN "url"
    ELSE "none"

ImageSource(image_path, image_url, image_base64) ==
    IF Truthy(image_path) THEN "path"
    ELSE IF Truthy(image_base64) THEN "base64"
    ELSE IF Truthy(image_url) THEN "url"
    ELSE "none"

DataUrlPrefix == <<"d","a","t","a",":","i","m","a","g","e","/","j","p","e","g",";","b","a","s","e","6","4",",">>

\* the "url" of the image block appended for source src
ImageBlockUrl(src, image_url, image_base64, file) ==
    CASE src = "path" -> DataUrlPrefix \o b64encode(file.content.v)
      [] src = "base64" -> DataUrlPrefix \o image_base64.v
      [] src = "url" -> image_url.v

\* the request analyze_ethnic_image sends
VisionRequest(url, person_name) ==
    [model |-> vision_model,
     user |-> <<"A","n","a","l","y","z","e"," ","t","h","i","s"," ","i","m","a","g","e"," ","o","f"," ">> \o person_name,
     image |-> url]

\* the dict of the two fallback branches
ImageFallback(score, indicator, result) ==
    PyDict(<< <<K_punteggio_immagine, PyInt(score)>>,
              <<K_indicatori_visivi, PyList(<<PyStr(indicator)>>)>>,
              <<K_spiegazione, PyStr(Prefix(result, ExplanationLimit))>> >>)

\* the parsing of the vision reply's message.content (a str)
ParseImageTextFirstInt(result) ==
    LET m == ReSearchBraces(result)
        j == JsonLoads(SubSeq(result, m.from, m.to))
        sm == ReSearchInt(result)
        score == IF sm.found THEN GroupInt(result, sm) ELSE DefaultScore
    IN  IF m.found /\ j.ok THEN j.val
        ELSE ImageFallback(score, <<"u","n","s","t","r","u","c","t","u","r","e","d"," ","a","n","a","l","y","s","i","s">>, result)

ParseImageText(result) ==
    LET m == ReSearchBraces(result)
        j == JsonLoads(SubSeq(result, m.from, m.to))
        sm == ReSearchInt(result)
        score == IF sm.found THEN GroupInt(result, sm) ELSE DefaultScore
    IN  IF m.found
        THEN IF j.ok THEN j.val
             ELSE ImageFallback(DefaultScore, <<"a","n","a","l","y","s","i","s"," ","e","r","r","o","r">>, result)
        ELSE ImageFallback(score, <<"u","n","s","t","r","u","c","t","u","r","e","d"," ","a","n","a","l","y","s","i","s">>, result)

\* analyze_ethnic_image(image_path, image_url, image_base64, person_name)
\* when open()/read() ends with `file` and the remote call with `o`:
\* ret is the value returned, sent the requests made, read whether
\* encode_image was called
analyze_ethnic_image(image_path, image_url, image_base64, person_name, file, o) ==
    LET src == ImageSource(image_path, image_url, image_base64)
        err(msg) == ErrorDict(<<"E","r","r","o","r"," ","i","n"," ","i","m","a","g","e"," ","a","n","a","l","y","s","i","s",":"," ">> \o msg)
    IN  IF src = "none"
        THEN [ret |-> ErrorDict(<<"N","o"," ","i","m","a","g","e"," ","p","r","o","v","i","d","e","d">>), sent |-> <<>>, read |-> FALSE]
        ELSE IF src = "path" /\ file.raised
        THEN [ret |-> err(file.content.v), sent |-> <<>>, read |-> TRUE]
        ELSE [read |-> src = "path",
              ret |-> IF o.raised THEN err(o.content.v)
                      ELSE IF o.content.t = "none" THEN err(TypeErrorMsg)
                      ELSE ParseImageText(o.content.v),
              sent |-> <<VisionRequest(
                           ImageBlockUrl(src, image_url, image_base64, file),
                           person_name)>>]

\* ------------------------------------------------------------------------
\* calculate_jewish_probability
\* ------------------------------------------------------------------------
DefaultProbability == 50
ModerateThreshold == 40

K_probabilita_percentuale == <<"p","r","o","b","a","b","i","l","i","t","a","_","p","e","r","c","e","n","t","u","a","l","e">>
K_categoria == <<"c","a","t","e","g","o","r","i","a">>
K_indicatori_principali == <<"i","n","d","i","c","a","t","o","r","i","_","p","r","i","n","c","i","p","a","l","i">>
K_confidenza == <<"c","o","n","f","i","d","e","n","z","a">>

\* the probability the three fallback branches read off the raw reply
FallbackProbability(result) ==
    LET pm == ReSearchPercent(result)
        wm == ReSearchProbability(result)
    IN  IF pm.found THEN GroupInt(result, pm)
        ELSE IF wm.found THEN GroupInt(result, wm)
        ELSE DefaultProbability

Categoria(probability) ==
    IF probability > ModerateThreshold THEN <<"m","o","d","e","r","a","t","a">> ELSE <<"b","a","s","s","a">>

\* the dict of the three fallback branches
ScoreFallback(result, indicator, confidenza) ==
    LET probability == FallbackProbability(result)
    IN  PyDict(<< <<K_probabilita_percentuale, PyInt(probability)>>,
                  <<K_categoria, PyStr(Categoria(probability))>>,
                  <<K_indicatori_principali, PyList(<<PyStr(indicator)>>)>>,
                  <<K_spiegazione, PyStr(Prefix(result, ExplanationLimit))>>,
                  <<K_confidenza, PyFloat(confidenza)>> >>)

\* the parsing of the scoring reply's message.content (a str)
ParseScoreTextSameConfidence(result) ==
    LET m == ReSearchBraces(result)
        j == JsonLoads(SubSeq(result, m.from, m.to))
    IN  IF m.found
        THEN IF j.ok
             THEN IF DictHas(j.val, K_probabilita_percentuale) THEN j.val
                  ELSE ScoreFallback(result, <<"f","a","l","l","b","a","c","k"," ","a","n","a","l","y","s","i","s">>, <<"0",".","5">>)
             ELSE ScoreFallback(result, <<"a","n","a","l","y","s","i","s"," ","e","r","r","o","r"," ","f","a","l","l","b","a","c","k">>, <<"0",".","5">>)
        ELSE ScoreFallback(result, <<"u","n","s","t","r","u","c","t","u","r","e","d"," ","a","n","a","l","y","s","i","s">>, <<"0",".","5">>)

ParseScoreText(result) ==
    LET m == ReSearchBraces(result)
        j == JsonLoads(SubSeq(result, m.from, m.to))
    IN  IF m.found
        THEN IF j.ok
             THEN IF DictHas(j.val, K_probabilita_percentuale) THEN j.val
                  ELSE ScoreFallback(result, <<"f","a","l","l","b","a","c","k"," ","a","n","a","l","y","s","i","s">>, <<"0",".","5">>)
             ELSE ScoreFallback(result, <<"a","n","a","l","y","s","i","s"," ","e","r","r","o","r"," ","f","a","l","l","b","a","c","k">>, <<"0",".","3">>)
        ELSE ScoreFallback(result, <<"u","n","s","t","r","u","c","t","u","r","e","d"," ","a","n","a","l","y","s","i","s">>, <<"0",".","5">>)

\* the request calculate_jewish_probability sends: the prompt embeds the
\* search data, and the image analysis when it is truthy
ScoreRequest(search_data, image_analysis) ==
    [model |-> vision_model,
     user |-> search_data,
     image |-> IF Truthy(image_analysis) THEN image_analysis
               ELSE PyStr(<<"N","o"," ","i","m","a","g","e"," ","p","r","o","v","i","d","e","d">>)]

\* calculate_jewish_probability(search_data, image_analysis) when the remote
\* call ends with o
calculate_jewish_probability(o) ==
    LET err(msg) == ErrorDict(<<"E","r","r","o","r"," ","c","a","l","c","u","l","a","t","i","n","g"," ","s","c","o","r","e",":"," ">> \o msg)
    IN  IF o.raised THEN err(o.content.v)
        ELSE IF o.content.t = "none" THEN err(TypeErrorMsg)
        ELSE ParseScoreText(o.content.v)

\* ------------------------------------------------------------------------
\* analyze_person_jewish_identity: the pure parts
\* ------------------------------------------------------------------------
ExcerptLimit == 500

\* str.strip()
RECURSIVE LStrip(_)
LStrip(s) == IF Len(s) > 0 /\ IsWs(s[1]) THEN LStrip(Tail(s)) ELSE s
RECURSIVE RStrip(_)
RStrip(s) ==
    IF Len(s) > 0 /\ IsWs(s[Len(s)]) THEN RStrip(SubSeq(s, 1, Len(s) - 1)) ELSE s

\* f"{nome} {cognome}".strip()
FullName(nome, cognome) == LStrip(RStrip(nome \o <<" ">> \o cognome))

search_queriesSwapped(full_name) ==
    << full_name \o <<" ","f","a","m","i","l","y"," ","b","a","c","k","g","r","o","u","n","d"," ","a","n","c","e","s","t","r","y">>,
       full_name \o <<" ","e","t","h","n","i","c"," ","o","r","i","g","i","n"," ","J","e","w","i","s","h"," ","h","e","r","i","t","a","g","e">>,
       full_name \o <<" ","r","e","l","i","g","i","o","u","s"," ","a","f","f","i","l","i","a","t","i","o","n"," ","c","u","l","t","u","r","a","l"," ","b","a","c","k","g","r","o","u","n","d">> >>

search_queries(full_name) ==
    << full_name \o <<" ","e","t","h","n","i","c"," ","o","r","i","g","i","n"," ","J","e","w","i","s","h"," ","h","e","r","i","t","a","g","e">>,
       full_name \o <<" ","f","a","m","i","l","y"," ","b","a","c","k","g","r","o","u","n","d"," ","a","n","c","e","s","t","r","y">>,
       full_name \o <<" ","r","e","l","i","g","i","o","u","s"," ","a","f","f","i","l","i","a","t","i","o","n"," ","c","u","l","t","u","r","a","l"," ","b","a","c","k","g","r","o","u","n","d">> >>

\* combined_search_data[:500] + "..." if len(combined_search_data) > 500
\* else combined_search_data
ExcerptAtLimit(combined) ==
    IF Len(combined) >= ExcerptLimit
    THEN Prefix(combined, ExcerptLimit) \o <<".",".",".">>
    ELSE combined

Excerpt(combined) ==
    IF Len(combined) > ExcerptLimit
    THEN Prefix(combined, ExcerptLimit) \o <<".",".",".">>
    ELSE combined

\* the condition of "if image_path or image_url or image_base64"
HasImageAlways(image_path, image_url, image_base64) == TRUE

HasImage(image_path, image_url, image_base64) ==
    Truthy(image_path) \/ Truthy(image_url) \/ Truthy(image_base64)

\* the dict analyze_person_jewish_identity returns
Result(full_name, combined, image_an, final_an) ==
    PyDict(<< <<<<"p","e","r","s","o","n","a">>, PyStr(full_name)>>,
              <<<<"t","i","m","e","s","t","a","m","p">>, PyStr(<<"2","0","2","5","-","0","9","-","2","2">>)>>,
              <<<<"d","a","t","i","_","r","i","c","e","r","c","a">>, PyStr(Excerpt(combined))>>,
              <<<<"a","n","a","l","i","s","i","_","i","m","m","a","g","i","n","e">>, image_an>>,
              <<<<"r","i","s","u","l","t","a","t","o","_","f","i","n","a","l","e">>, final_an>> >>)

\* ------------------------------------------------------------------------
\* Bounds and input domains
\* ------------------------------------------------------------------------
\* search replies are short (0..MaxShort characters) or long
MaxShort == 1
\* image files hold at most MaxFileLen bytes
MaxFileLen == 2

TextOfLen(n) == [i \in 1..n |-> "x"]

\* lengths whose joins (two 2-character separators) fall below, on and above
\* ExcerptLimit
SearchLens == (0..MaxShort) \cup {(ExcerptLimit - 4) \div 2}

SearchOutcomes ==
    {Raise(<<"C","o","n","n","e","c","t","i","o","n"," ","e","r","r","o","r",".">>), Reply(PyNone)}
        \cup {Reply(PyStr(TextOfLen(n))) : n \in SearchLens}

FileBytes == {0, 77, 255}
RECURSIVE BytesUpTo(_)
BytesUpTo(n) ==
    IF n = 0 THEN {<<>>}
    ELSE LET shorter == BytesUpTo(n - 1)
         IN  shorter \cup {Append(bs, b) : bs \in {x \in shorter : Len(x) = n - 1},
                                           b \in FileBytes}

FileOutcomes ==
    {Raise(<<"[","E","r","r","n","o"," ","2","]"," ","N","o"," ","s","u","c","h"," ","f","i","l","e"," ","o","r"," ","d","i","r","e","c","t","o","r","y",":"," ","'","p","h","o","t","o",".","j","p","g","'">>)}
        \cup {Reply(PyBytes(bs)) : bs \in BytesUpTo(MaxFileLen)}

\* the file outcomes of a whole run: the file is missing or holds "Man"
RunFileOutcomes ==
    {Raise(<<"[","E","r","r","n","o"," ","2","]"," ","N","o"," ","s","u","c","h"," ","f","i","l","e"," ","o","r"," ","d","i","r","e","c","t","o","r","y",":"," ","'","p","h","o","t","o",".","j","p","g","'">>),
     Reply(PyBytes(<<77, 97, 110>>))}

VisionObject73 ==
    <<"{","\"","p","u","n","t","e","g","g","i","o","_","i","m","m","a","g","i","n","e","\"",":"," ","7","3",","," ","\"","i","n","d","i","c","a","t","o","r","i","_","v","i","s","i","v","i","\"",":"," ","[","\"","m","e","n","o","r","a","h","\"",","," ","\"","k","i","p","p","a","h","\"","]",","," ","\"","s","p","i","e","g","a","z","i","o","n","e","\"",":"," ","\"","v","i","s","i","b","l","e"," ","s","y","m","b","o","l","s","\"","}">>

VisionPres ==
    {<<>>, <<"I"," ","w","o","u","l","d"," ","s","a","y"," ","a","r","o","u","n","d"," ","6","5","."," ">>, <<"N","o","t","e","s"," ","{","a","}",":"," ">>,
     TextOfLen(ExplanationLimit - 1)}
VisionMids ==
    {<<>>, VisionObject73, <<"{","\"","p","u","n","t","e","g","g","i","o","_","i","m","m","a","g","i","n","e","\"",":"," ","1","5","0","}">>,
     <<"{","\"","p","u","n","t","e","g","g","i","o","_","i","m","m","a","g","i","n","e","\"",":"," ","\"","h","i","g","h","\"","}">>, <<"{","p","u","n","t","e","g","g","i","o","_","i","m","m","a","g","i","n","e",":"," ","6","5","}">>, <<"{","}">>}
VisionPosts ==
    {<<>>, <<"7">>, <<" ","T","h","a","n","k","s",".">>, <<" ","(","s","e","e"," ","n","o","t","e"," ","2","}",")">>, <<" ","P","h","o","t","o"," ","f","r","o","m"," ","2","0","1","9",".">>}

VisionTexts ==
    {pre \o mid \o post : pre \in VisionPres, mid \in VisionMids, post \in VisionPosts}

RemoteError == Raise(<<"R","e","q","u","e","s","t"," ","t","i","m","e","d"," ","o","u","t",".">>)

VisionOutcomes == {RemoteError, Reply(PyNone)} \cup {Reply(PyStr(s)) : s \in VisionTexts}

\* the vision replies of a whole run
RunVisionOutcomes ==
    {RemoteError, Reply(PyNone), Reply(PyStr(VisionObject73)),
     Reply(PyStr(<<"P","h","o","t","o"," ","f","r","o","m"," ","2","0","1","9",","," ","s","c","o","r","e"," ","a","r","o","u","n","d"," ","6","5">>)),
     Reply(PyStr(<<"{","u","n","c","l","e","a","r","}">>))}

ScoreObject30 ==
    <<"{","\"","p","r","o","b","a","b","i","l","i","t","a","_","p","e","r","c","e","n","t","u","a","l","e","\"",":"," ","3","0",","," ","\"","c","a","t","e","g","o","r","i","a","\"",":"," ","\"","b","a","s","s","a","\"",","," ","\"","i","n","d","i","c","a","t","o","r","i","_","p","r","i","n","c","i","p","a","l","i","\"",":"," ","[","\"","s","u","r","n","a","m","e","\"","]",","," ","\"","s","p","i","e","g","a","z","i","o","n","e","\"",":"," ","\"","f","e","w"," ","i","n","d","i","c","a","t","o","r","s","\"",","," ","\"","c","o","n","f","i","d","e","n","z","a","\"",":"," ","0",".","4","}">>

ScorePres ==
    {<<>>, <<"E","s","t","i","m","a","t","e","d"," ","7","8","%"," ","l","i","k","e","l","y","."," ">>, <<"T","h","e"," ","P","r","o","b","a","b","i","l","i","t","y"," ","i","s"," ","a","b","o","u","t"," ","3","5","."," ">>,
     <<"B","e","t","w","e","e","n"," ","1","2"," ","a","n","d"," ","3","4","%"," ">>, TextOfLen(ExplanationLimit - 1)}
ScoreMids ==
    {<<>>, ScoreObject30, <<"{","\"","p","r","o","b","a","b","i","l","i","t","a","_","p","e","r","c","e","n","t","u","a","l","e","\"",":"," ","1","3","0","}">>,
     <<"{","\"","p","r","o","b","a","b","i","l","i","t","a","\"",":"," ","5","5","}">>, <<"{","\"","p","r","o","b","a","b","i","l","i","t","a","_","p","e","r","c","e","n","t","u","a","l","e","\"",":"," ","3","0",",","}">>,
     <<"{","p","r","o","b","a","b","i","l","i","t","a",":"," ","4","0","%","}">>}
ScorePosts ==
    {<<>>, <<"7">>, <<" ","(","4","1","%"," ","m","a","r","g","i","n",")">>, <<" ","}">>, <<" ","p","r","o","b","a","b","i","l","i","t","y"," ","f","r","o","m"," ","1","9","4","8"," ","r","e","c","o","r","d","s">>}

ScoreTexts ==
    {pre \o mid \o post : pre \in ScorePres, mid \in ScoreMids, post \in ScorePosts}

ScoreOutcomes == {RemoteError, Reply(PyNone)} \cup {Reply(PyStr(s)) : s \in ScoreTexts}

\* the scoring replies of a whole run
RunScoreOutcomes ==
    {RemoteError, Reply(PyNone), Reply(PyStr(ScoreObject30)),
     Reply(PyStr(<<"E","s","t","i","m","a","t","e","d"," ","7","8","%"," ","l","i","k","e","l","y",".">>)),
     Reply(PyStr(<<"{","\"","p","r","o","b","a","b","i","l","i","t","a","_","p","e","r","c","e","n","t","u","a","l","e","\"",":"," ","1","3","0","}">>))}

Absent == [t |-> "absent", v |-> <<>>]

\* POST bodies: not JSON at all, JSON that is no object, or an object whose
\* fields are absent, empty or set
NoFields == [firstName |-> Absent, lastName |-> Absent, imageBase64 |-> Absent]
Bodies ==
    {[kind |-> "malformed", fields |-> NoFields], [kind |-> "array", fields |-> NoFields]}
        \cup {[kind |-> "object",
               fields |-> [firstName |-> f, lastName |-> l, imageBase64 |-> b]] :
                f \in {Absent, PyStr(<<>>), PyStr(<<"J","a","n","e">>)},
                l \in {Absent, PyStr(<<>>), PyStr(<<"D","o","e">>)},
                b \in {Absent, PyStr(<<>>), PyStr(<<"Q","U","J","D">>)}}

\* os.getenv("OPENAI_API_KEY")
ApiKeys == {PyNone, PyStr(<<"s","k","-","t","e","s","t">>)}

\* the image arguments of a direct call
ImageArgs ==
    {[image_path |-> p, image_url |-> u, image_base64 |-> b] :
        p \in {PyNone, PyStr(<<"p","h","o","t","o",".","j","p","g">>)},
        u \in {PyNone, PyStr(<<"h","t","t","p","s",":","/","/","e","x","a","m","p","l","e",".","o","r","g","/","p","h","o","t","o",".","j","p","g">>)},
        b \in {PyNone, PyStr(<<"Q","U","J","D">>)}}

Args(nome, cognome, img) ==
    [nome |-> nome, cognome |-> cognome, image_path |-> img.image_path,
     image_url |-> img.image_url, image_base64 |-> img.image_base64]

NoArgs ==
    Args(PyNone, PyNone,
         [image_path |-> PyNone, image_url |-> PyNone, image_base64 |-> PyNone])

\* ------------------------------------------------------------------------
\* State
\* ------------------------------------------------------------------------
VARIABLES
    pc,                   \* where the run is: idle, construct, search, image, score, done
    req,                  \* how the run was entered: the function called, the POST body, the key
    agent,                \* TRUE once JewishIdentityAnalyzerAgent(api_key) has been built
    args,                 \* nome, cognome, image_path, image_url, image_base64
    all_search_data,      \* the list the search loop appends to
    combined_search_data, \* "\n\n".join(all_search_data)
    image_analysis,       \* None, or what analyze_ethnic_image returned
    final_analysis,       \* what calculate_jewish_probability returned
    ret,                  \* what the entered function returned or raised
    http,                 \* the response do_POST wrote: status (0: none yet) and JSON body
    calls,                \* the agent methods invoked, in order
    remote,               \* the requests sent to the completion endpoints, in order
    replies,              \* the outcomes of those requests, in order
    reads                 \* the outcomes of the image file reads, in order

vars ==
    <<pc, req, agent, args, all_search_data, combined_search_data, image_analysis,
      final_analysis, ret, http, calls, remote, replies, reads>>

NoReturn == [kind |-> "none", val |-> PyNone]
NoResponse == [status |-> 0, json |-> PyNone]
Response(code, body) == [status |-> code, json |-> body]

\* handler.send_error(code, message)
send_error(code, message) == Response(code, PyDict(<< <<<<"e","r","r","o","r">>, PyStr(message)>> >>))

Entry(fn, body, key) == [entry |-> fn, body |-> body, key |-> key]
NoBody == [kind |-> "none", fields |-> NoFields]

InitCommon ==
    /\ all_search_data = <<>>
    /\ combined_search_data = <<>>
    /\ final_analysis = PyNone
    /\ ret = NoReturn
    /\ http = NoResponse
    /\ calls = <<>>
    /\ remote = <<>>
    /\ replies = <<>>
    /\ reads = <<>>

Init ==
    /\ pc = "idle"
    /\ req = Entry("none", NoBody, PyNone)
    /\ agent = FALSE
    /\ args = NoArgs
    /\ image_analysis = PyNone
    /\ InitCommon

\* an exception leaves the entered function: do_POST answers 500
Raised(msg) ==
    /\ pc' = "done"
    /\ ret' = [kind |-> "raise", val |-> PyStr(msg)]
    /\ http' = IF req.entry = "do_POST"
               THEN send_error(500, <<"A","n","a","l","y","s","i","s"," ","f","a","i","l","e","d",":"," ">> \o msg)
               ELSE http

\* the entered function returns val: do_POST answers 200 with it
Returned(val) ==
    /\ pc' = "done"
    /\ ret' = [kind |-> "return", val |-> val]
    /\ http' = IF req.entry = "do_POST" THEN Response(200, val) ELSE http

\* data.get(key, '')
Get(field) == IF field.t = "absent" THEN PyStr(<<>>) ELSE field

\* ------------------------------------------------------------------------
\* handler.do_POST, up to the construction of the agent
\* ------------------------------------------------------------------------
\* the response of the validation part, status 0 when the request passes it
ValidateKeyFirst(body, key) ==
    IF body.kind # "object"
    THEN send_error(500, <<"A","n","a","l","y","s","i","s"," ","f","a","i","l","e","d",":"," ">> \o
            (IF body.kind = "malformed"
             THEN <<"E","x","p","e","c","t","i","n","g"," ","v","a","l","u","e",":"," ","l","i","n","e"," ","1"," ","c","o","l","u","m","n"," ","1"," ","(","c","h","a","r"," ","0",")">>
             ELSE <<"'","l","i","s","t","'"," ","o","b","j","e","c","t"," ","h","a","s"," ","n","o"," ","a","t","t","r","i","b","u","t","e"," ","'","g","e","t","'">>))
    ELSE IF ~Truthy(key)
    THEN send_error(500, <<"O","p","e","n","A","I"," ","A","P","I"," ","k","e","y"," ","n","o","t"," ","c","o","n","f","i","g","u","r","e","d">>)
    ELSE IF ~Truthy(Get(body.fields.firstName)) \/ ~Truthy(Get(body.fields.lastName))
    THEN send_error(400, <<"F","i","r","s","t"," ","n","a","m","e"," ","a","n","d"," ","l","a","s","t"," ","n","a","m","e"," ","a","r","e"," ","r","e","q","u","i","r","e","d">>)
    ELSE NoResponse

Validate(body, key) ==
    IF body.kind # "object"
    THEN send_error(500, <<"A","n","a","l","y","s","i","s"," ","f","a","i","l","e","d",":"," ">> \o
            (IF body.kind = "malformed"
             THEN <<"E","x","p","e","c","t","i","n","g"," ","v","a","l","u","e",":"," ","l","i","n","e"," ","1"," ","c","o","l","u","m","n"," ","1"," ","(","c","h","a","r"," ","0",")">>
             ELSE <<"'","l","i","s","t","'"," ","o","b","j","e","c","t"," ","h","a","s"," ","n","o"," ","a","t","t","r","i","b","u","t","e"," ","'","g","e","t","'">>))
    ELSE IF ~Truthy(Get(body.fields.firstName)) \/ ~Truthy(Get(body.fields.lastName))
    THEN send_error(400, <<"F","i","r","s","t"," ","n","a","m","e"," ","a","n","d"," ","l","a","s","t"," ","n","a","m","e"," ","a","r","e"," ","r","e","q","u","i","r","e","d">>)
    ELSE IF ~Truthy(key)
    THEN send_error(500, <<"O","p","e","n","A","I"," ","A","P","I"," ","k","e","y"," ","n","o","t"," ","c","o","n","f","i","g","u","r","e","d">>)
    ELSE NoResponse

do_POST(body, key) ==
    /\ pc = "idle"
    /\ req' = Entry("do_POST", body, key)
    /\ LET early == Validate(body, key)
           imageBase64 == IF body.fields.imageBase64.t = "absent" THEN PyNone
                          ELSE body.fields.imageBase64
           image_param == IF Truthy(imageBase64) THEN imageBase64 ELSE PyNone
       IN  IF early.status # 0
           THEN /\ http' = early
                /\ pc' = "done"
                /\ UNCHANGED args
           ELSE /\ pc' = "construct"
                /\ args' = Args(body.fields.firstName, body.fields.lastName,
                                [image_path |-> PyNone, image_url |-> PyNone,
                                 image_base64 |-> image_param])
                /\ UNCHANGED http
    /\ UNCHANGED <<agent, all_search_data, combined_search_data, image_analysis,
                   final_analysis, ret, calls, remote, replies, reads>>

\* JewishIdentityAnalyzerAgent(api_key): OpenAI(api_key=api_key) builds the
\* client or raises
Construct(built) ==
    /\ pc = "construct"
    /\ IF built
       THEN /\ agent' = TRUE
            /\ pc' = "search"
            /\ UNCHANGED <<ret, http>>
       ELSE /\ Raised(<<"T","h","e"," ","a","p","i","_","k","e","y"," ","c","l","i","e","n","t"," ","o","p","t","i","o","n"," ","m","u","s","t"," ","b","e"," ","s","e","t">>)
            /\ UNCHANGED agent
    /\ UNCHANGED <<req, args, all_search_data, combined_search_data, image_analysis,
                   final_analysis, calls, remote, replies, reads>>

\* analyze_person_jewish_identity called on a built agent
CallAnalyzePerson(img) ==
    /\ pc = "idle"
    /\ req' = Entry("analyze_person_jewish_identity", NoBody, PyNone)
    /\ agent' = TRUE
    /\ args' = Args(PyStr(<<"J","a","n","e">>), PyStr(<<"D","o","e">>), img)
    /\ pc' = "search"
    /\ UNCHANGED <<all_search_data, combined_search_data, image_analysis,
                   final_analysis, ret, http, calls, remote, replies, reads>>

\* ------------------------------------------------------------------------
\* analyze_person_jewish_identity, one action per call it makes
\* ------------------------------------------------------------------------
full_name == FullName(args.nome.v, args.cognome.v)

Min(S) == CHOOSE a \in S : \A b \in S : a <= b

\* one pass of the search loop; the third pass goes on to the join and to
\* the test for an image
WebSearch(o) ==
    /\ pc = "search"
    /\ LET q == Len(all_search_data) + 1
           query == search_queries(full_name)[q]
           all == Append(all_search_data, web_search(o))
           nones == {i \in 1..Len(all) : all[i].t = "none"}
       IN  /\ calls' = Append(calls, [fn |-> "web_search", arg |-> query])
           /\ remote' = Append(remote, SearchRequest(query))
           /\ replies' = Append(replies, o)
           /\ all_search_data' = all
           /\ IF q < 3
              THEN /\ pc' = "search"
                   /\ UNCHANGED <<combined_search_data, ret, http>>
              ELSE IF nones # {}
              THEN /\ Raised(JoinErrorMsg(Min(nones)))
                   /\ UNCHANGED combined_search_data
              ELSE /\ combined_search_data' = Join(<<"\n","\n">>, [i \in 1..3 |-> all[i].v])
                   /\ pc' = IF HasImage(args.image_path, args.image_url,
                                        args.image_base64)
                            THEN "image" ELSE "score"
                   /\ UNCHANGED <<ret, http>>
    /\ UNCHANGED <<req, agent, args, image_analysis, final_analysis, reads>>

\* the call of analyze_ethnic_image
AnalyzeImage(file, o) ==
    /\ pc = "image"
    /\ LET r == analyze_ethnic_image(args.image_path, args.image_url,
                                     args.image_base64, full_name, file, o)
       IN  /\ image_analysis' = r.ret
           /\ calls' = Append(calls, [fn |-> "analyze_ethnic_image", arg |-> full_name])
           /\ remote' = remote \o r.sent
           /\ replies' = IF Len(r.sent) > 0 THEN Append(replies, o) ELSE replies
           /\ reads' = IF r.read THEN Append(reads, file) ELSE reads
           /\ IF req.entry = "analyze_ethnic_image"
              THEN Returned(r.ret)
              ELSE /\ pc' = "score"
                   /\ UNCHANGED <<ret, http>>
    /\ UNCHANGED <<req, agent, args, all_search_data, combined_search_data,
                   final_analysis>>

\* the call of calculate_jewish_probability, and the assembly of the result
CalculateProbability(o) ==
    /\ pc = "score"
    /\ LET final == calculate_jewish_probability(o)
       IN  /\ final_analysis' = final
           /\ calls' = Append(calls, [fn |-> "calculate_jewish_probability",
                                      arg |-> combined_search_data])
           /\ remote' = Append(remote, ScoreRequest(combined_search_data, image_analysis))
           /\ replies' = Append(replies, o)
           /\ IF req.entry = "calculate_jewish_probability"
              THEN Returned(final)
              ELSE Returned(Result(full_name, combined_search_data, image_analysis, final))
    /\ UNCHANGED <<req, agent, args, all_search_data, combined_search_data,
                   image_analysis, reads>>

Next ==
    \/ \E body \in Bodies, key \in ApiKeys : do_POST(body, key)
    \/ \E built \in BOOLEAN : Construct(built)
    \/ \E img \in ImageArgs : CallAnalyzePerson(img)
    \/ \E o \in SearchOutcomes : WebSearch(o)
    \/ \E file \in RunFileOutcomes, o \in RunVisionOutcomes : AnalyzeImage(file, o)
    \/ \E o \in RunScoreOutcomes : CalculateProbability(o)

Spec == Init /\ [][Next]_vars

\* ------------------------------------------------------------------------
\* analyze_ethnic_image called on its own, over every reply text
\* ------------------------------------------------------------------------
ImageInit ==
    /\ pc = "image"
    /\ req = Entry("analyze_ethnic_image", NoBody, PyNone)
    /\ agent = TRUE
    /\ \E img \in ImageArgs : args = Args(PyStr(<<"J","a","n","e">>), PyStr(<<"D","o","e">>), img)
    /\ image_analysis = PyNone
    /\ InitCommon

ImageNext == \E file \in FileOutcomes, o \in VisionOutcomes : AnalyzeImage(file, o)

ImageSpec == ImageInit /\ [][ImageNext]_vars

\* ------------------------------------------------------------------------
\* calculate_jewish_probability called on its own, over every reply text
\* ------------------------------------------------------------------------
ScoreInit ==
    /\ pc = "score"
    /\ req = Entry("calculate_jewish_probability", NoBody, PyNone)
    /\ agent = TRUE
    /\ args = Args(PyStr(<<"J","a","n","e">>), PyStr(<<"D","o","e">>), NoArgs)
    /\ all_search_data = <<>>
    /\ combined_search_data \in {<<>>, <<"J","a","n","e"," ","D","o","e"," ","w","a","s"," ","b","o","r","n"," ","i","n"," ","1","9","4","8",".">>}
    /\ image_analysis \in {PyNone, PyDict(<<>>), ParseImageText(VisionObject73)}
    /\ final_analysis = PyNone
    /\ ret = NoReturn
    /\ http = NoResponse
    /\ calls = <<>>
    /\ remote = <<>>
    /\ replies = <<>>
    /\ reads = <<>>

ScoreNext == \E o \in ScoreOutcomes : CalculateProbability(o)

ScoreSpec == ScoreInit /\ [][ScoreNext]_vars

\* ------------------------------------------------------------------------
\* Properties of a whole run (Spec)
\* ------------------------------------------------------------------------
\* the run is one of analyze_person_jewish_identity, entered directly or
\* through do_POST
PersonRun == req.entry \in {"do_POST", "analyze_person_jewish_identity"}

NameMissing(body) ==
    \/ body.fields.firstName \in {Absent, PyStr(<<>>)}
    \/ body.fields.lastName \in {Absent, PyStr(<<>>)}

NothingCalled == ~agent /\ calls = <<>> /\ remote = <<>>

Answered400 ==
    /\ http.status = 400
    /\ http.json.t = "dict"
    /\ Len(http.json.v) = 1
    /\ http.json.v[1][1] = <<"e","r","r","o","r">>

\* C1, as stated: every POST whose body lacks firstName or lastName -- also a
\* body that is no JSON object and so holds neither -- is answered 400 with an
\* {"error": ...} body, and nothing remote is called.
C1_MissingNameAnswered400 ==
    (req.entry = "do_POST" /\ (req.body.kind # "object" \/ NameMissing(req.body)))
        => (Answered400 /\ NothingCalled)

\* C1, amended: every POST whose body is a JSON object in which firstName or
\* lastName is absent or empty is answered 400 with an {"error": ...} body,
\* and nothing remote is called, whether or not the API key is set.
C1_ObjectMissingNameAnswered400 ==
    (req.entry = "do_POST" /\ req.body.kind = "object" /\ NameMissing(req.body))
        => (Answered400 /\ NothingCalled)

\* a POST without lastName and without API key has been answered 400
C1_Witness ==
    /\ req.entry = "do_POST"
    /\ req.body.kind = "object"
    /\ req.body.fields.firstName = PyStr(<<"J","a","n","e">>)
    /\ req.body.fields.lastName = Absent
    /\ req.key = PyNone
    /\ pc = "done"
    /\ http.status = 400

NoImageGiven ==
    args.image_path = PyNone /\ args.image_url = PyNone /\ args.image_base64 = PyNone

\* C2: in a run with no image input, analyze_ethnic_image is never invoked
\* and the returned result's analisi_immagine is None.
C2_NoImageNullAssessment ==
    (PersonRun /\ NoImageGiven)
        => /\ \A i \in 1..Len(calls) : calls[i].fn # "analyze_ethnic_image"
           /\ image_analysis = PyNone
           /\ ret.kind = "return"
                => /\ DictHas(ret.val, <<"a","n","a","l","i","s","i","_","i","m","m","a","g","i","n","e">>)
                   /\ DictGet(ret.val, <<"a","n","a","l","i","s","i","_","i","m","m","a","g","i","n","e">>) = PyNone

\* a run without image has returned its result
C2_Witness ==
    /\ req.entry = "analyze_person_jewish_identity"
    /\ NoImageGiven
    /\ pc = "done"
    /\ ret.kind = "return"

\* the three queries for "Jane Doe", in the order of the claim
ExpectedQueries ==
    << <<"J","a","n","e"," ","D","o","e"," ","e","t","h","n","i","c"," ","o","r","i","g","i","n"," ","J","e","w","i","s","h"," ","h","e","r","i","t","a","g","e">>,
       <<"J","a","n","e"," ","D","o","e"," ","f","a","m","i","l","y"," ","b","a","c","k","g","r","o","u","n","d"," ","a","n","c","e","s","t","r","y">>,
       <<"J","a","n","e"," ","D","o","e"," ","r","e","l","i","g","i","o","u","s"," ","a","f","f","i","l","i","a","t","i","o","n"," ","c","u","l","t","u","r","a","l"," ","b","a","c","k","g","r","o","u","n","d">> >>

ExpectedCalls ==
    <<"web_search", "web_search", "web_search">>
        \o (IF NoImageGiven THEN <<>> ELSE <<"analyze_ethnic_image">>)
        \o <<"calculate_jewish_probability">>

ResultKeys ==
    <<<<"p","e","r","s","o","n","a">>, <<"t","i","m","e","s","t","a","m","p">>, <<"d","a","t","i","_","r","i","c","e","r","c","a">>, <<"a","n","a","l","i","s","i","_","i","m","m","a","g","i","n","e">>,
      <<"r","i","s","u","l","t","a","t","o","_","f","i","n","a","l","e">>>>

\* C4, as stated: once the client is built, whatever the remote calls raise
\* or reply (a reply without text content included), the run ends by
\* returning a result with all five fields.
C4_NeverAborts ==
    (PersonRun /\ agent /\ pc = "done")
        => /\ ret.kind = "return"
           /\ ret.val.t = "dict"
           /\ \A k \in 1..5 : DictHas(ret.val, ResultKeys[k])

NonError(x) == x.t = "dict" /\ ~DictHas(x, <<"e","r","r","o","r","e">>)

IntInRange(d, k) ==
    /\ DictHas(d, k)
    /\ DictGet(d, k).t = "int"
    /\ DictGet(d, k).v[1] >= 0
    /\ DictGet(d, k).v[1] <= 100

\* C8, as stated: in every returned result a non-error image assessment has
\* an integer punteggio_immagine in 0..100 and a non-error final assessment
\* an integer probabilita_percentuale in 0..100.
C8_ScoresInRange ==
    (PersonRun /\ ret.kind = "return")
        => /\ NonError(image_analysis)
                => IntInRange(image_analysis, K_punteggio_immagine)
           /\ NonError(final_analysis)
                => IntInRange(final_analysis, K_probabilita_percentuale)

\* the three search results joined by blank lines
JoinedSearches ==
    all_search_data[1].v \o <<"\n", "\n">> \o all_search_data[2].v
        \o <<"\n", "\n">> \o all_search_data[3].v

\* C9: the returned dati_ricerca is the first 500 characters of the joined
\* search results followed by "..." when they are longer than 500 characters,
\* and the joined search results themselves otherwise.
C9_ExcerptTruncation ==
    (PersonRun /\ ret.kind = "return")
        => LET S == JoinedSearches
               excerpt == DictGet(ret.val, <<"d","a","t","i","_","r","i","c","e","r","c","a">>).v
           IN  IF Len(S) > 500
               THEN /\ Len(excerpt) = 503
                    /\ \A i \in 1..500 : excerpt[i] = S[i]
                    /\ \A i \in 501..503 : excerpt[i] = "."
               ELSE excerpt = S

\* a run whose joined search results are 501 characters long has returned
C9_Witness ==
    /\ PersonRun
    /\ ret.kind = "return"
    /\ Len(JoinedSearches) = 501

\* ------------------------------------------------------------------------
\* Properties of analyze_ethnic_image (ImageSpec)
\* ------------------------------------------------------------------------
\* analyze_ethnic_image has returned after the vision endpoint replied text
ImageTextReply ==
    /\ req.entry = "analyze_ethnic_image"
    /\ pc = "done"
    /\ Len(replies) = 1
    /\ ~replies[1].raised
    /\ replies[1].content.t = "str"

Max(S) == CHOOSE a \in S : \A b \in S : a >= b

HasInt(s) == \E i \in 1..Len(s) : IsDigit(s[i])

\* the value of the first run of digits of s
FirstInt(s) ==
    LET i == Min({k \in 1..Len(s) : IsDigit(s[k])})
        j == Max({k \in i..Len(s) : \A n \in i..k : IsDigit(s[n])})
    IN  IntOf(s, i, j)

ScoreIs(r, n) ==
    DictHas(r, K_punteggio_immagine) /\ DictGet(r, K_punteggio_immagine) = PyInt(n)

IndicatorsAre(r, k, text) == DictHas(r, k) /\ DictGet(r, k) = PyList(<<PyStr(text)>>)

ExplanationIsFirst200(r, s) ==
    /\ DictHas(r, K_spiegazione)
    /\ DictGet(r, K_spiegazione) = PyStr([i \in 1..(IF Len(s) < 200 THEN Len(s) ELSE 200) |-> s[i]])

\* C5, as stated: a {...} substring that parses as JSON is returned; when it
\* is absent or malformed the score is the first integer of the reply, or 50
\* when the reply has none, the indicator list is a placeholder and the
\* explanation is the first 200 characters of the reply.
C5_ThreeTiers ==
    ImageTextReply
        => LET s == replies[1].content.v
               m == ReSearchBraces(s)
               parsed == JsonLoads(SubSeq(s, m.from, m.to))
               r == ret.val
           IN  IF m.found /\ parsed.ok THEN r = parsed.val
               ELSE /\ ScoreIs(r, IF HasInt(s) THEN FirstInt(s) ELSE 50)
                    /\ \/ IndicatorsAre(r, K_indicatori_visivi, <<"u","n","s","t","r","u","c","t","u","r","e","d"," ","a","n","a","l","y","s","i","s">>)
                       \/ IndicatorsAre(r, K_indicatori_visivi, <<"a","n","a","l","y","s","i","s"," ","e","r","r","o","r">>)
                    /\ ExplanationIsFirst200(r, s)

\* C5, amended: a {...} substring that parses as JSON is returned; when the
\* reply has no {...} substring the score is its first integer, or 50 when it
\* has none, with indicators ["unstructured analysis"]; when the substring is
\* malformed JSON the score is 50 whatever integers the reply holds, with
\* indicators ["analysis error"]; in both the explanation is the first 200
\* characters of the reply.
C5_ThreeTiersMalformedIs50 ==
    ImageTextReply
        => LET s == replies[1].content.v
               m == ReSearchBraces(s)
               parsed == JsonLoads(SubSeq(s, m.from, m.to))
               r == ret.val
           IN  IF m.found /\ parsed.ok THEN r = parsed.val
               ELSE IF m.found
               THEN /\ ScoreIs(r, 50)
                    /\ IndicatorsAre(r, K_indicatori_visivi, <<"a","n","a","l","y","s","i","s"," ","e","r","r","o","r">>)
                    /\ ExplanationIsFirst200(r, s)
               ELSE /\ ScoreIs(r, IF HasInt(s) THEN FirstInt(s) ELSE 50)
                    /\ IndicatorsAre(r, K_indicatori_visivi, <<"u","n","s","t","r","u","c","t","u","r","e","d"," ","a","n","a","l","y","s","i","s">>)
                    /\ ExplanationIsFirst200(r, s)

\* a reply longer than 200 characters with a malformed {...} and the integer
\* 65 has been given score 50
C5_Witness ==
    /\ ImageTextReply
    /\ LET s == replies[1].content.v
           m == ReSearchBraces(s)
       IN  /\ m.found
           /\ ~JsonLoads(SubSeq(s, m.from, m.to)).ok
           /\ Len(s) > 200
           /\ HasInt(s)
           /\ FirstInt(s) = 65
    /\ ScoreIs(ret.val, 50)

\* the well-formed objects with a punteggio_immagine field among VisionMids
EmbeddedObjects ==
    {mid \in VisionMids :
        /\ JsonLoads(mid).ok
        /\ JsonLoads(mid).val.t = "dict"
        /\ DictHas(JsonLoads(mid).val, K_punteggio_immagine)}

\* C6, as stated: a reply that is one well-formed object with a
\* punteggio_immagine field inside prose is answered with exactly that
\* object, whatever the prose holds, braces included.
C6_EmbeddedObjectReturned ==
    ImageTextReply
        => \A pre \in VisionPres, mid \in EmbeddedObjects, post \in VisionPosts :
             replies[1].content.v = pre \o mid \o post
                => ret.val = JsonLoads(mid).val

\* ------------------------------------------------------------------------
\* Properties of the image source (ImageSpec)
\* ------------------------------------------------------------------------
NoSourceGiven == NoImageGiven

\* the url of the image block for a source
BlockOfPath ==
    /\ Len(reads) = 1
    /\ ~reads[1].raised
    /\ remote[1].image = <<"d","a","t","a",":","i","m","a","g","e","/","j","p","e","g",";","b","a","s","e","6","4",",">> \o b64encode(reads[1].content.v)
BlockOfBase64 == remote[1].image = <<"d","a","t","a",":","i","m","a","g","e","/","j","p","e","g",";","b","a","s","e","6","4",",">> \o args.image_base64.v
BlockOfUrl == remote[1].image = args.image_url.v

\* C10, as stated: the image block is built from the inline base64 when
\* given, else from the local path, else from the URL; with no source given
\* no request is sent and an error value is returned.
C10_Base64PathUrl ==
    (req.entry = "analyze_ethnic_image" /\ pc = "done")
        => IF NoSourceGiven THEN remote = <<>> /\ IsErrorDict(ret.val)
           ELSE Len(remote) = 1
                  => IF args.image_base64 # PyNone THEN BlockOfBase64
                     ELSE IF args.image_path # PyNone THEN BlockOfPath
                     ELSE BlockOfUrl

\* C10, amended: the image block is built from the local path when given,
\* else from the inline base64, else from the URL; a path whose file cannot
\* be read ends the call with an error value and no request, whatever other
\* sources are given; with no source given no request is sent and an error
\* value is returned.
C10_PathBase64Url ==
    (req.entry = "analyze_ethnic_image" /\ pc = "done")
        => IF NoSourceGiven THEN remote = <<>> /\ IsErrorDict(ret.val)
           ELSE IF args.image_path # PyNone
           THEN /\ Len(reads) = 1
                /\ IF reads[1].raised THEN remote = <<>> /\ IsErrorDict(ret.val)
                   ELSE Len(remote) = 1 /\ BlockOfPath
           ELSE /\ reads = <<>>
                /\ Len(remote) = 1
                /\ IF args.image_base64 # PyNone THEN BlockOfBase64 ELSE BlockOfUrl

\* a call given a readable path and an inline base64 has sent its request
C10_Witness ==
    /\ req.entry = "analyze_ethnic_image"
    /\ pc = "done"
    /\ args.image_path # PyNone
    /\ args.image_base64 # PyNone
    /\ Len(remote) = 1
    /\ Len(reads) = 1
    /\ Len(reads[1].content.v) = 2

\* ------------------------------------------------------------------------
\* Properties of calculate_jewish_probability (ScoreSpec)
\* ------------------------------------------------------------------------
ScoreTextReply ==
    /\ req.entry = "calculate_jewish_probability"
    /\ pc = "done"
    /\ Len(replies) = 1
    /\ ~replies[1].raised
    /\ replies[1].content.t = "str"

\* the starts of the digit runs of s that a '%' follows
PercentTokens(s) ==
    {i \in 1..Len(s) :
        /\ IsDigit(s[i])
        /\ i = 1 \/ ~IsDigit(s[i - 1])
        /\ \E j \in i..(Len(s) - 1) :
             /\ \A n \in i..j : IsDigit(s[n])
             /\ s[j + 1] = "%"}

\* NN of the first token "NN%" of s
FirstPercent(s) ==
    LET i == Min(PercentTokens(s))
        j == Max({k \in i..Len(s) : \A n \in i..k : IsDigit(s[n])})
    IN  IntOf(s, i, j)

FieldIs(r, k, val) == DictHas(r, k) /\ DictGet(r, k) = val

ProbabilityAndCategory(r, nn) ==
    /\ FieldIs(r, K_probabilita_percentuale, PyInt(nn))
    /\ FieldIs(r, K_categoria, PyStr(IF nn > 40 THEN <<"m","o","d","e","r","a","t","a">> ELSE <<"b","a","s","s","a">>))

\* C7, as stated: a reply with no parseable JSON object (no {...} substring,
\* or one that is not valid JSON) and a token "NN%" gives probability NN of
\* the first such token, category "moderata" when NN > 40 and "bassa"
\* otherwise, and confidence 0.5.
C7_PercentFallback ==
    ScoreTextReply
        => LET s == replies[1].content.v
               m == ReSearchBraces(s)
           IN  ((~m.found \/ ~JsonLoads(SubSeq(s, m.from, m.to)).ok)
                    /\ PercentTokens(s) # {})
                 => /\ ProbabilityAndCategory(ret.val, FirstPercent(s))
                    /\ FieldIs(ret.val, K_confidenza, PyFloat(<<"0",".","5">>))

\* C7, amended: such a reply gives probability NN of the first token "NN%",
\* category "moderata" when NN > 40 and "bassa" otherwise, and confidence 0.5
\* when it has no {...} substring, 0.3 when it has one that is not valid JSON.
C7_PercentFallbackConfidence ==
    ScoreTextReply
        => LET s == replies[1].content.v
               m == ReSearchBraces(s)
           IN  ((~m.found \/ ~JsonLoads(SubSeq(s, m.from, m.to)).ok)
                    /\ PercentTokens(s) # {})
                 => /\ ProbabilityAndCategory(ret.val, FirstPercent(s))
                    /\ FieldIs(ret.val, K_confidenza,
                               PyFloat(IF m.found THEN <<"0",".","3">> ELSE <<"0",".","5">>))

\* a reply with a {...} substring that is not valid JSON and the token "78%"
\* has been given probability 78, "moderata" and confidence 0.3
C7_Witness ==
    /\ ScoreTextReply
    /\ LET s == replies[1].content.v
           m == ReSearchBraces(s)
       IN  /\ m.found
           /\ ~JsonLoads(SubSeq(s, m.from, m.to)).ok
           /\ PercentTokens(s) # {}
           /\ FirstPercent(s) = 78
    /\ FieldIs(ret.val, K_categoria, PyStr(<<"m","o","d","e","r","a","t","a">>))
    /\ FieldIs(ret.val, K_confidenza, PyFloat(<<"0",".","3">>))

=============================================================================
